---- MODULE Spec2Model ----
(***************************************************************************)
(* Model of streamlit_app.py: the memoized load of healthcare_dataset.csv, *)
(* the sidebar filters and the aggregates computed on the filtered view.   *)
(* One script run (a Streamlit rerun) is one action.                        *)
(***************************************************************************)
EXTENDS Integers, Sequences, FiniteSets, TLC

\* Largest number of data rows of the CSV file.
MaxRows == 3

\* Largest number of data rows when the rows differ in their date cells.
MaxDateRows == 2

\* Largest number of data rows of a file that lacks a required column.
MaxBadRows == 1

(***************************************************************************)
(* Values                                                                  *)
(***************************************************************************)

\* pandas' missing marker in an object (string) column.
NaN == "nan"

\* pandas' missing marker in a numeric / datetime / timedelta column (NaN, NaT).
Missing == [ok |-> FALSE, v |-> 0]

Some(x) == [ok |-> TRUE, v |-> x]

\* The first entry of both select boxes.
All == "All"

HoursPerDay == 24

AllColumns ==
  {"Gender", "Medical Condition", "Age", "Billing Amount",
   "Date of Admission", "Discharge Date"}

\* Columns the script indexes after load_data has returned.
ScriptColumns == {"Gender", "Medical Condition", "Age", "Billing Amount"}

RawRow(g, c, age, bill, adm, dis) ==
  ("Gender" :> g) @@ ("Medical Condition" :> c) @@ ("Age" :> age) @@
  ("Billing Amount" :> bill) @@ ("Date of Admission" :> adm) @@
  ("Discharge Date" :> dis)

Date(y, m, d) == [y |-> y, m |-> m, d |-> d]

(***************************************************************************)
(* Calendar: what pd.to_datetime(..., errors='coerce') does to one cell    *)
(***************************************************************************)

IsLeapYear(y) == (y % 4 = 0) /\ ((y % 100 # 0) \/ (y % 400 = 0))

DaysPerMonth(y, m) ==
  IF m = 2 THEN (IF IsLeapYear(y) THEN 29 ELSE 28)
  ELSE IF m \in {4, 6, 9, 11} THEN 30 ELSE 31

\* The whole years a nanosecond timestamp can hold (1677-09-21 .. 2262-04-11).
MinYear == 1678

MaxYear == 2261

\* A cell parses iff it names a day of the calendar that a timestamp can hold;
\* any other cell is coerced to NaT.
ValidDate(cell) ==
  /\ cell.y \in MinYear..MaxYear
  /\ cell.m \in 1..12
  /\ cell.d >= 1
  /\ cell.d <= DaysPerMonth(cell.y, cell.m)

RECURSIVE DaysBeforeMonth(_, _)
DaysBeforeMonth(y, m) ==
  IF m <= 1 THEN 0 ELSE DaysPerMonth(y, m - 1) + DaysBeforeMonth(y, m - 1)

\* Days since 1970-01-01 as the datetime64 conversion counts them: 365 per
\* year plus the leap days of the years in between (\div rounds down).
DaysFromCivil(cell) ==
  LET yr == cell.y - 1970
  IN  yr * 365 + ((yr + 1) \div 4) - ((yr + 69) \div 100) + ((yr + 369) \div 400)
      + DaysBeforeMonth(cell.y, cell.m) + (cell.d - 1)

\* The timestamp of a cell (hours since the epoch, at midnight), or NaT.
ToDatetime(cell) ==
  IF ValidDate(cell) THEN Some(DaysFromCivil(cell) * HoursPerDay) ELSE Missing

\* A subtraction that reads NaT as the epoch.
MinusFromEpoch(a, b) == Some(a.v - b.v)

\* Series subtraction: NaT on either side gives NaT.
Minus(a, b) == IF a.ok /\ b.ok THEN Some(a.v - b.v) ELSE Missing

\* A day count clamped at zero.
DtDaysClamped(td) ==
  IF td.ok THEN Some(IF td.v < 0 THEN 0 ELSE td.v \div HoursPerDay) ELSE Missing

\* Series.dt.days: the days component of a timedelta (floor), NaN for NaT.
DtDays(td) == IF td.ok THEN Some(td.v \div HoursPerDay) ELSE Missing

(***************************************************************************)
(* load_data                                                               *)
(***************************************************************************)

\* read_csv turns an empty cell of a string column into NaN.
ReadCell(s) == IF s = "" THEN NaN ELSE s

ReadRow(raw) ==
  [raw EXCEPT !["Gender"] = ReadCell(@), !["Medical Condition"] = ReadCell(@)]

ConvertRow(r) ==
  LET adm == ToDatetime(r["Date of Admission"])
      dis == ToDatetime(r["Discharge Date"])
  IN  [r EXCEPT !["Date of Admission"] = adm, !["Discharge Date"] = dis]
        @@ ("Length of Stay" :> DtDays(Minus(dis, adm)))

Raise(e) == [err |-> e, data |-> <<>>]

Return(d) == [err |-> "none", data |-> d]

load_data(f) ==
  IF ~f.readable THEN Raise("IOError")
  ELSE IF ~f.wellformed THEN Raise("ParseError")
  ELSE IF "Date of Admission" \notin f.columns THEN Raise("KeyError")
  ELSE IF "Discharge Date" \notin f.columns THEN Raise("KeyError")
  ELSE Return([i \in 1..Len(f.rows) |-> ConvertRow(ReadRow(f.rows[i]))])

(***************************************************************************)
(* Sidebar filters                                                         *)
(***************************************************************************)

Column(d, key) == [i \in 1..Len(d) |-> d[i][key]]

\* ['All'] + list(df[key].unique())
Options(d, key) == {All} \cup {d[i][key] : i \in 1..Len(d)}

\* Element-wise == of an object column with a scalar: NaN equals nothing.
Eq(a, b) == a # NaN /\ b # NaN /\ a = b

\* filtered_df[filtered_df[key] == value]
Mask(d, key, value) == SelectSeq(d, LAMBDA r : Eq(r[key], value))

RECURSIVE KeepAt(_, _, _)
\* The rows fd[i], i <= n, at the positions where keep[i] holds.
KeepAt(fd, keep, n) ==
  IF n = 0 THEN <<>>
  ELSE IF keep[n] THEN Append(KeepAt(fd, keep, n - 1), fd[n])
  ELSE KeepAt(fd, keep, n - 1)

\* The condition mask taken from the unfiltered frame and applied by position.
filteredMisaligned(d, g, c) ==
  LET byGender == IF g # All THEN Mask(d, "Gender", g) ELSE d
      keep == [i \in 1..Len(d) |-> Eq(d[i]["Medical Condition"], c)]
  IN  IF c # All THEN KeepAt(byGender, keep, Len(byGender)) ELSE byGender

filtered(d, g, c) ==
  LET byGender == IF g # All THEN Mask(d, "Gender", g) ELSE d
  IN  IF c # All THEN Mask(byGender, "Medical Condition", c) ELSE byGender

(***************************************************************************)
(* Aggregates on the filtered view                                         *)
(***************************************************************************)

RECURSIVE Sigma(_, _)
\* f[1] + ... + f[n]
Sigma(f, n) == IF n = 0 THEN 0 ELSE f[n] + Sigma(f, n - 1)

\* An undefined mean / coefficient (float NaN).
NaNValue == [ok |-> FALSE, num |-> 0, den |-> 1]

\* A mean that divides by the number of rows, missing ones included.
MeanOverRows(col) ==
  LET n == Len(col)
      tot == Sigma([i \in 1..n |-> IF col[i].ok THEN col[i].v ELSE 0], n)
  IN  IF n = 0 THEN NaNValue ELSE [ok |-> TRUE, num |-> tot, den |-> n]

\* A mean that answers 0 when there is nothing to average.
MeanZeroWhenEmpty(col) ==
  LET n == Len(col)
      cnt == Sigma([i \in 1..n |-> IF col[i].ok THEN 1 ELSE 0], n)
      tot == Sigma([i \in 1..n |-> IF col[i].ok THEN col[i].v ELSE 0], n)
  IN  IF cnt = 0 THEN [ok |-> TRUE, num |-> 0, den |-> 1]
      ELSE [ok |-> TRUE, num |-> tot, den |-> cnt]

\* Series.mean(): skipna, the sum of the present values over their number;
\* NaN when there is none.  The value is the fraction num / den.
Mean(col) ==
  LET n == Len(col)
      cnt == Sigma([i \in 1..n |-> IF col[i].ok THEN 1 ELSE 0], n)
      tot == Sigma([i \in 1..n |-> IF col[i].ok THEN col[i].v ELSE 0], n)
  IN  IF cnt = 0 THEN NaNValue ELSE [ok |-> TRUE, num |-> tot, den |-> cnt]

\* The three lines of the "Data Overview" sidebar block.
Overview(fd) ==
  [count     |-> Len(fd),
   mean_los  |-> Mean(Column(fd, "Length of Stay")),
   mean_bill |-> Mean(Column(fd, "Billing Amount"))]

\* groupby(['Medical Condition', 'Gender']).size(): rows with a NaN key are
\* dropped (dropna=True), every other observed key pair maps to its row count.
GroupSize(fd) ==
  LET kept == {i \in 1..Len(fd) :
                 fd[i]["Medical Condition"] # NaN /\ fd[i]["Gender"] # NaN}
      keys == {<<fd[i]["Medical Condition"], fd[i]["Gender"]>> : i \in kept}
  IN  [k \in keys |->
         Cardinality({i \in kept :
            <<fd[i]["Medical Condition"], fd[i]["Gender"]>> = k})]

\* .unstack(): one row per first-level key, one column per second-level key,
\* a missing cell where the pair has no entry.
Unstack(size) ==
  LET index   == {k[1] : k \in DOMAIN size}
      columns == {k[2] : k \in DOMAIN size}
  IN  [c \in index |-> [g \in columns |->
         IF <<c, g>> \in DOMAIN size THEN Some(size[<<c, g>>]) ELSE Missing]]

\* .fillna(0)
FillNa0(table) ==
  [c \in DOMAIN table |-> [g \in DOMAIN table[c] |->
     IF table[c][g].ok THEN table[c][g].v ELSE 0]]

gender_condition_of(fd) == FillNa0(Unstack(GroupSize(fd)))

CorrKeys == <<"Age", "Billing Amount", "Length of Stay">>

Sign(n) == IF n > 0 THEN 1 ELSE IF n < 0 THEN -1 ELSE 0

\* A coefficient over the rows where the first column is present, a missing
\* value of the second read as 0.
PairCorrFirstMask(x, y) ==
  LET n   == Len(x)
      use == [i \in 1..n |-> x[i].ok]
      nobs == Sigma([i \in 1..n |-> IF use[i] THEN 1 ELSE 0], n)
      sx  == Sigma([i \in 1..n |-> IF use[i] THEN x[i].v ELSE 0], n)
      sy  == Sigma([i \in 1..n |-> IF use[i] THEN y[i].v ELSE 0], n)
      sxx == Sigma([i \in 1..n |-> IF use[i] THEN x[i].v * x[i].v ELSE 0], n)
      syy == Sigma([i \in 1..n |-> IF use[i] THEN y[i].v * y[i].v ELSE 0], n)
      sxy == Sigma([i \in 1..n |-> IF use[i] THEN x[i].v * y[i].v ELSE 0], n)
      cov == nobs * sxy - sx * sy
      vx  == nobs * sxx - sx * sx
      vy  == nobs * syy - sy * sy
  IN  IF nobs < 1 \/ vx * vy = 0 THEN [ok |-> FALSE, sgn |-> 0, num |-> 0, den |-> 1]
      ELSE [ok |-> TRUE, sgn |-> Sign(cov), num |-> cov * cov, den |-> vx * vy]

\* Pearson coefficient of two columns over the rows where both are present
\* (pairwise complete, min_periods = 1).  The coefficient is
\* sgn * sqrt(num / den); it is NaN when no row is complete or when either
\* column has no spread on the complete rows (zero divisor).
PairCorr(x, y) ==
  LET n   == Len(x)
      use == [i \in 1..n |-> x[i].ok /\ y[i].ok]
      nobs == Sigma([i \in 1..n |-> IF use[i] THEN 1 ELSE 0], n)
      sx  == Sigma([i \in 1..n |-> IF use[i] THEN x[i].v ELSE 0], n)
      sy  == Sigma([i \in 1..n |-> IF use[i] THEN y[i].v ELSE 0], n)
      sxx == Sigma([i \in 1..n |-> IF use[i] THEN x[i].v * x[i].v ELSE 0], n)
      syy == Sigma([i \in 1..n |-> IF use[i] THEN y[i].v * y[i].v ELSE 0], n)
      sxy == Sigma([i \in 1..n |-> IF use[i] THEN x[i].v * y[i].v ELSE 0], n)
      cov == nobs * sxy - sx * sy
      vx  == nobs * sxx - sx * sx
      vy  == nobs * syy - sy * sy
  IN  IF nobs < 1 \/ vx * vy = 0 THEN [ok |-> FALSE, sgn |-> 0, num |-> 0, den |-> 1]
      ELSE [ok |-> TRUE, sgn |-> Sign(cov), num |-> cov * cov, den |-> vx * vy]

\* filtered_df[['Age', 'Billing Amount', 'Length of Stay']].corr()
Corr(fd) ==
  [i \in 1..Len(CorrKeys) |-> [j \in 1..Len(CorrKeys) |->
     PairCorr(Column(fd, CorrKeys[i]), Column(fd, CorrKeys[j]))]]

(***************************************************************************)
(* One run of the script body (lines 28-159) on the loaded frame           *)
(***************************************************************************)

\* A run that narrows df itself instead of a copy.
ScriptInPlace(d, g, c) ==
  LET fd == filtered(d, g, c)
  IN  [df               |-> fd,
       filtered_df      |-> fd,
       overview         |-> Overview(fd),
       gender_condition |-> gender_condition_of(fd),
       corr             |-> Corr(fd)]

Script(d, g, c) ==
  LET fd == filtered(d, g, c)
  IN  [df               |-> d,
       filtered_df      |-> fd,
       overview         |-> Overview(fd),
       gender_condition |-> gender_condition_of(fd),
       corr             |-> Corr(fd)]

(***************************************************************************)
(* State                                                                   *)
(***************************************************************************)

VARIABLES
  file,               \* healthcare_dataset.csv as found on disk
  pc,                 \* "start", "running" (a run has rendered), "failed"
  err,                \* the exception that ended the run, or "none"
  raised_in,          \* "load_data", "script" or "none"
  cache,              \* st.cache_data's memo of load_data()
  df,                 \* the script's df
  selected_gender,
  selected_condition,
  filtered_df,
  overview,
  gender_condition,
  corr

vars == <<file, pc, err, raised_in, cache, df, selected_gender,
          selected_condition, filtered_df, overview, gender_condition, corr>>

NoCache == [hit |-> FALSE, value |-> <<>>]

File(readable, wellformed, columns, rows) ==
  [readable |-> readable, wellformed |-> wellformed,
   columns |-> columns, rows |-> rows]

SeqsUpTo(U, n) == UNION {[1..k -> U] : k \in 0..n}

\* Files load_data or the script cannot process.
BadFiles(U) ==
  {File(FALSE, TRUE, AllColumns, <<>>), File(TRUE, FALSE, AllColumns, <<>>)}
  \cup {File(TRUE, TRUE, AllColumns \ {col}, rows) :
          col \in {"Date of Admission", "Discharge Date", "Gender"},
          rows \in SeqsUpTo(U, MaxBadRows)}

Files(U, n) ==
  {File(TRUE, TRUE, AllColumns, rows) : rows \in SeqsUpTo(U, n)}
  \cup BadFiles(U)

InitOn(U, n) ==
  /\ file \in Files(U, n)
  /\ pc = "start"
  /\ err = "none"
  /\ raised_in = "none"
  /\ cache = NoCache
  /\ df = <<>>
  /\ selected_gender = All
  /\ selected_condition = All
  /\ filtered_df = <<>>
  /\ overview = Overview(<<>>)
  /\ gender_condition = <<>>
  /\ corr = <<>>

(***************************************************************************)
(* Actions                                                                 *)
(***************************************************************************)

Render(d, g, c) ==
  \E run \in {Script(d, g, c)} :
      /\ df' = run.df
      /\ selected_gender' = g
      /\ selected_condition' = c
      /\ filtered_df' = run.filtered_df
      /\ overview' = run.overview
      /\ gender_condition' = run.gender_condition
      /\ corr' = run.corr

\* First run, load_data raises: nothing is cached, nothing is rendered.
FirstRunLoadFails ==
  /\ pc = "start"
  /\ \E loaded \in {load_data(file)} :
       /\ loaded.err # "none"
       /\ err' = loaded.err
  /\ pc' = "failed"
  /\ raised_in' = "load_data"
  /\ UNCHANGED <<file, cache, df, selected_gender, selected_condition,
                 filtered_df, overview, gender_condition, corr>>

\* First run, load_data returns but the script indexes an absent column.
FirstRunScriptFails ==
  /\ pc = "start"
  /\ ~(ScriptColumns \subseteq file.columns)
  /\ \E loaded \in {load_data(file)} :
       /\ loaded.err = "none"
       /\ cache' = [hit |-> TRUE, value |-> loaded.data]
       /\ df' = loaded.data
  /\ pc' = "failed"
  /\ err' = "KeyError"
  /\ raised_in' = "script"
  /\ UNCHANGED <<file, selected_gender, selected_condition,
                 filtered_df, overview, gender_condition, corr>>

\* First run: the data is loaded and memoized, both select boxes show 'All'.
FirstRun ==
  /\ pc = "start"
  /\ ScriptColumns \subseteq file.columns
  /\ \E loaded \in {load_data(file)} :
       /\ loaded.err = "none"
       /\ cache' = [hit |-> TRUE, value |-> loaded.data]
       /\ Render(loaded.data, All, All)
  /\ pc' = "running"
  /\ UNCHANGED <<file, err, raised_in>>

\* The user picks another gender: the script reruns on the memoized data.
SelectGender ==
  /\ pc = "running"
  /\ \E g \in Options(df, "Gender") :
       /\ g # selected_gender
       /\ Render(cache.value, g, selected_condition)
  /\ UNCHANGED <<file, pc, err, raised_in, cache>>

\* The user picks another medical condition.
SelectCondition ==
  /\ pc = "running"
  /\ \E c \in Options(df, "Medical Condition") :
       /\ c # selected_condition
       /\ Render(cache.value, selected_gender, c)
  /\ UNCHANGED <<file, pc, err, raised_in, cache>>

Next ==
  \/ FirstRunLoadFails
  \/ FirstRunScriptFails
  \/ FirstRun
  \/ SelectGender
  \/ SelectCondition

(***************************************************************************)
(* Input universes                                                         *)
(***************************************************************************)

Admitted == Date(2020, 1, 1)

Discharged == Date(2020, 1, 5)

\* Rows that differ in the two sidebar columns (an empty cell is read as NaN).
CategoryRows ==
  {RawRow(g, c, Some(1), Some(1), Admitted, Discharged) :
     g \in {"Male", "Female", ""}, c \in {"Diabetes", "Asthma", ""}}

\* Date cells: a year end, a leap February, and a day that does not exist.
DateCells ==
  {Date(2019, 12, 31), Date(2020, 1, 1), Date(2020, 1, 5),
   Date(2020, 2, 28), Date(2020, 3, 1), Date(2019, 2, 29)}

DateRows ==
  {RawRow("Male", "Diabetes", Some(1), Some(1), adm, dis) :
     adm \in DateCells, dis \in DateCells}

\* Rows with missing billing amounts and unparseable discharge dates; no
\* male asthma and no female diabetes patient.
SummaryRows ==
  {RawRow(p[1], p[2], Some(1), bill, Admitted, dis) :
     p \in {<<"Male", "Diabetes">>, <<"Female", "Asthma">>},
     bill \in {Missing, Some(1), Some(3)},
     dis \in {Discharged, Date(2020, 2, 30)}}

\* Rows that differ in the three correlated columns.
NumericRows ==
  {RawRow("Male", "Diabetes", Some(age), bill, Admitted, dis) :
     age \in {1, 2},
     bill \in {Missing, Some(1), Some(3)},
     dis \in {Admitted, Discharged, Date(2020, 2, 30)}}

Init == InitOn(CategoryRows, MaxRows)
Spec == Init /\ [][Next]_vars

InitDates == InitOn(DateRows, MaxDateRows)
SpecDates == InitDates /\ [][Next]_vars

InitSummary == InitOn(SummaryRows, MaxRows)
SpecSummary == InitSummary /\ [][Next]_vars

InitNumeric == InitOn(NumericRows, MaxRows)
SpecNumeric == InitNumeric /\ [][Next]_vars

(***************************************************************************)
(* Properties                                                              *)
(***************************************************************************)

Running == pc = "running"

\* The file's i-th raw row.
Raw(i) == file.rows[i]

Rows(d) == 1..Len(d)

\* Calendar order of two date cells.
Before(a, b) ==
  \/ a.y < b.y
  \/ a.y = b.y /\ a.m < b.m
  \/ a.y = b.y /\ a.m = b.m /\ a.d < b.d

\* The day after a calendar day.
NextDay(c) ==
  IF c.d < DaysPerMonth(c.y, c.m) THEN Date(c.y, c.m, c.d + 1)
  ELSE IF c.m < 12 THEN Date(c.y, c.m + 1, 1)
  ELSE Date(c.y + 1, 1, 1)

RECURSIVE DaysUntil(_, _)
\* How many times the calendar turns from day a to a later day b.
DaysUntil(a, b) == IF a = b THEN 0 ELSE 1 + DaysUntil(NextDay(a), b)

\* Discharge minus admission in whole days, counted on the calendar.
WholeDays(adm, dis) ==
  IF Before(dis, adm) THEN 0 - DaysUntil(dis, adm) ELSE DaysUntil(adm, dis)

BothParse(r) == r["Date of Admission"].ok /\ r["Discharge Date"].ok

\* C1: after load_data, every record whose two dates both parse has Length
\* of Stay equal to the whole-day difference discharge minus admission,
\* negative when the discharge precedes the admission (no clamping).
C1_LengthOfStayIsDayDifference ==
  Running =>
    \A i \in Rows(df) :
      BothParse(df[i]) =>
        df[i]["Length of Stay"] =
          Some(WholeDays(Raw(i)["Date of Admission"], Raw(i)["Discharge Date"]))

\* A loaded record with a negative stay next to one with a positive stay.
C1_Witness ==
  /\ Running
  /\ \E i \in Rows(df) : BothParse(df[i]) /\ df[i]["Length of Stay"].v < 0
  /\ \E i \in Rows(df) : BothParse(df[i]) /\ df[i]["Length of Stay"].v > 0

GoodFile ==
  file.readable /\ file.wellformed /\ AllColumns \subseteq file.columns

\* C2: a date cell that does not parse becomes the missing marker, the
\* record's Length of Stay is then missing, the load is not aborted and every
\* record of the file stays in the dataset.
C2_UnparseableDateGivesMissingStay ==
  (GoodFile /\ pc # "start") =>
    /\ Running
    /\ Len(df) = Len(file.rows)
    /\ \A i \in Rows(df) :
         /\ ~ValidDate(Raw(i)["Date of Admission"])
              => df[i]["Date of Admission"] = Missing
         /\ ~ValidDate(Raw(i)["Discharge Date"])
              => df[i]["Discharge Date"] = Missing
         /\ (~ValidDate(Raw(i)["Date of Admission"])
               \/ ~ValidDate(Raw(i)["Discharge Date"]))
              => df[i]["Length of Stay"] = Missing

\* A loaded dataset holding a record with an unparseable date and a record
\* whose dates both parse.
C2_Witness ==
  /\ Running
  /\ \E i \in Rows(df) : /\ ~ValidDate(Raw(i)["Discharge Date"])
                          /\ ValidDate(Raw(i)["Date of Admission"])
                          /\ df[i]["Discharge Date"] = Missing
                          /\ df[i]["Length of Stay"] = Missing
  /\ \E i \in Rows(df) : BothParse(df[i])

\* A record passes the sidebar selection.
Selected(r, g, c) ==
  /\ g # All => r["Gender"] = g
  /\ c # All => r["Medical Condition"] = c

\* C3: the filtered view is exactly the records of the dataset, in their
\* order, whose Gender equals the selected gender and whose Medical Condition
\* equals the selected condition ('All' matching everything), for every
\* selection the sidebar offers.
C3_ViewIsMatchingSubsequence ==
  Running =>
    filtered_df =
      SelectSeq(df, LAMBDA r : Selected(r, selected_gender, selected_condition))

\* C4: filtering the filtered view again with the same selection returns it.
C4_FilterIdempotent ==
  Running =>
    filtered(filtered_df, selected_gender, selected_condition) = filtered_df

\* Both select boxes narrowed, the view a proper, non-empty part of the data.
C4_Witness ==
  /\ Running
  /\ selected_gender \notin {All, NaN}
  /\ selected_condition \notin {All, NaN}
  /\ Len(filtered_df) > 0
  /\ Len(filtered_df) < Len(df)

\* C5: once loaded, no rerun changes the dataset: neither the memoized
\* frame nor the script's df differ after a selection change.
C5_DatasetUnchangedByReruns ==
  [][Running => (df' = df /\ cache' = cache)]_vars

\* A narrowed view next to the full dataset.
C5_Witness ==
  /\ Running
  /\ selected_gender # All
  /\ selected_condition # All
  /\ Len(filtered_df) < Len(df)
  /\ df = cache.value
  /\ Len(df) = Len(file.rows)

RECURSIVE SetSum(_, _)
\* The sum of f over the index set S.
SetSum(f, S) ==
  IF S = {} THEN 0
  ELSE LET i == CHOOSE j \in S : TRUE IN f[i] + SetSum(f, S \ {i})

Present(fd, key) == {i \in Rows(fd) : fd[i][key].ok}

\* m is the arithmetic mean of the present values of a column.
IsMeanOfPresent(m, fd, key) ==
  /\ m.ok
  /\ m.num * Cardinality(Present(fd, key))
       = SetSum([i \in Rows(fd) |-> fd[i][key].v], Present(fd, key)) * m.den

\* C6: the overview counts every record of the view, missing values or not,
\* and each mean is the arithmetic mean of the non-missing values only.
C6_CountAllMeanOverPresent ==
  Running =>
    /\ overview.count = Len(filtered_df)
    /\ Present(filtered_df, "Length of Stay") # {}
         => IsMeanOfPresent(overview.mean_los, filtered_df, "Length of Stay")
    /\ Present(filtered_df, "Billing Amount") # {}
         => IsMeanOfPresent(overview.mean_bill, filtered_df, "Billing Amount")

\* Two records, a 4-day stay and an unparseable discharge date: count 2,
\* mean Length of Stay 4.
C6_Witness ==
  /\ Running
  /\ Len(filtered_df) = 2
  /\ filtered_df[1]["Length of Stay"] = Some(4)
  /\ filtered_df[2]["Length of Stay"] = Missing
  /\ overview.count = 2
  /\ overview.mean_los.ok
  /\ overview.mean_los.num = 4 * overview.mean_los.den

\* C7: on an empty view both means are NaN and the count is 0; a mean over
\* a column with no present value is NaN; the run does not raise.
C7_EmptyOrAllMissingGivesNaN ==
  Running =>
    /\ err = "none"
    /\ Len(filtered_df) = 0 =>
         overview.count = 0 /\ ~overview.mean_los.ok /\ ~overview.mean_bill.ok
    /\ Present(filtered_df, "Length of Stay") = {} => ~overview.mean_los.ok
    /\ Present(filtered_df, "Billing Amount") = {} => ~overview.mean_bill.ok

\* A gender and a condition that never occur together were selected: the
\* view of a non-empty dataset is empty.
C7_Witness ==
  /\ Running
  /\ Len(df) > 0
  /\ selected_gender # All
  /\ selected_condition # All
  /\ Len(filtered_df) = 0
  /\ ~overview.mean_los.ok
  /\ ~overview.mean_bill.ok

\* The (Medical Condition, Gender) combinations of the records of a frame.
Combinations(fd) ==
  {<<fd[i]["Medical Condition"], fd[i]["Gender"]>> : i \in Rows(fd)}

CountOf(fd, k) ==
  Cardinality({i \in Rows(fd) :
     <<fd[i]["Medical Condition"], fd[i]["Gender"]>> = k})

\* C8: the group count has an entry, the exact record count, for each
\* combination that occurs in the view and none for any other; the chart's
\* table shows the count of each occurring combination and 0 elsewhere.
C8_GroupCountExact ==
  Running =>
    /\ DOMAIN GroupSize(filtered_df) = Combinations(filtered_df)
    /\ \A k \in Combinations(filtered_df) :
         /\ GroupSize(filtered_df)[k] = CountOf(filtered_df, k)
         /\ k[1] \in DOMAIN gender_condition
         /\ k[2] \in DOMAIN gender_condition[k[1]]
         /\ gender_condition[k[1]][k[2]] = CountOf(filtered_df, k)
    /\ \A c \in DOMAIN gender_condition : \A g \in DOMAIN gender_condition[c] :
         <<c, g>> \notin Combinations(filtered_df) => gender_condition[c][g] = 0

IsOne(e) == e.ok /\ e.sgn = 1 /\ e.num = e.den

Symmetric(M) == \A i \in DOMAIN M : \A j \in DOMAIN M : M[i][j] = M[j][i]

\* C9 as stated: on any filtered view the matrix is symmetric and every
\* diagonal entry is 1.0.
C9_DiagonalAlwaysOne ==
  Running => (Symmetric(corr) /\ \A i \in DOMAIN corr : IsOne(corr[i][i]))

\* The rows of the view where both columns of a pair are present.
Complete(fd, a, b) == {i \in Rows(fd) : fd[i][a].ok /\ fd[i][b].ok}

\* A column takes two different values on the rows S.
Spread(fd, key, S) == \E i \in S : \E j \in S : fd[i][key].v # fd[j][key].v

\* C9 amended: the matrix is symmetric; an entry is a number exactly when
\* both columns of its pair take two different values on the rows where both
\* are present, and NaN otherwise; a diagonal entry that is a number is 1.0.
C9_SymmetricDiagonalOneWhereDefined ==
  Running =>
    /\ Symmetric(corr)
    /\ \A i \in DOMAIN corr : \A j \in DOMAIN corr :
         LET S == Complete(filtered_df, CorrKeys[i], CorrKeys[j])
         IN  corr[i][j].ok = (Spread(filtered_df, CorrKeys[i], S)
                               /\ Spread(filtered_df, CorrKeys[j], S))
    /\ \A i \in DOMAIN corr : corr[i][i].ok => IsOne(corr[i][i])

\* A view where one diagonal entry is 1.0, another is NaN, and a pair of
\* columns is correlated over fewer rows than the view has.
C9_Witness ==
  /\ Running
  /\ IsOne(corr[1][1])
  /\ ~corr[2][2].ok
  /\ corr[1][3].ok
  /\ Cardinality(Complete(filtered_df, "Age", "Length of Stay")) < Len(filtered_df)

\* C10: load_data fails only with IOError, on an unreadable path, or with
\* ParseError, on a file that is not delimited tabular data; on every other
\* file it returns.
C10_OnlyTwoLoadFailures ==
  pc # "start" =>
    /\ raised_in = "load_data" => err \in {"IOError", "ParseError"}
    /\ (file.readable /\ file.wellformed) => raised_in # "load_data"
    /\ ~file.readable => (raised_in = "load_data" /\ err = "IOError")
    /\ (file.readable /\ ~file.wellformed)
         => (raised_in = "load_data" /\ err = "ParseError")

====
